---- MODULE Spec2Model ----
(***************************************************************************)
(* Verification model of the minidger journal: the accounting tree         *)
(* (RootNode / AccountTagNode / AccountNode), the DFS name lookup, the     *)
(* AmountAggregator, the ledger and BalanceSheet::build.                   *)
(*                                                                         *)
(* The tree is an arena: `nodes` is the sequence of all node objects ever  *)
(* constructed, a node reference (Rc<RefCell<..>>) is its index, and an    *)
(* Option<reference> is the index or None.  Amounts are f64 in the source: *)
(* the tree's amounts are small integers, on which f64 addition is exact,  *)
(* and the journal's amounts are whole f64 values with f64 rounding.       *)
(***************************************************************************)
EXTENDS Integers, Sequences, FiniteSets, TLC

VARIABLES nodes, ctor_args, dfs, agg, ledger, ledger_fields, journal_entry, last

vars == <<nodes, ctor_args, dfs, agg, ledger, ledger_fields, journal_entry, last>>

(***************************************************************************)
(* Bounds of the model.                                                    *)
(***************************************************************************)
MaxNodes == 4
MaxLevel == 2
MaxTreeNodes == 4
MaxAggNodes == 5
MaxAmount == 2400
MaxBuildNodes == 4
MaxEntries == 2
MaxNames == 2
MaxDate == 2
MaxLedgerEntries == 2
MaxBulkEntries == 3
MaxBatch == 2
MaxTxEntries == 3
MaxCtorNodes == 3
MaxRebuildEntries == 1

None == 0

(***************************************************************************)
(* Names are strings of characters.  eq_ignore_ascii_case folds the ASCII   *)
(* letters A-Z and leaves every other character as it is.                  *)
(***************************************************************************)
\* The ASCII upper-case letters and their lower-case forms.
AsciiLowercase ==
    ("A" :> "a") @@ ("B" :> "b") @@ ("C" :> "c") @@ ("D" :> "d") @@ ("E" :> "e") @@ ("F" :> "f") @@
    ("G" :> "g") @@ ("H" :> "h") @@ ("I" :> "i") @@ ("J" :> "j") @@ ("K" :> "k") @@ ("L" :> "l") @@
    ("M" :> "m") @@ ("N" :> "n") @@ ("O" :> "o") @@ ("P" :> "p") @@ ("Q" :> "q") @@ ("R" :> "r") @@
    ("S" :> "s") @@ ("T" :> "t") @@ ("U" :> "u") @@ ("V" :> "v") @@ ("W" :> "w") @@ ("X" :> "x") @@
    ("Y" :> "y") @@ ("Z" :> "z")

to_ascii_lowercase(c) ==
    IF c \in DOMAIN AsciiLowercase THEN AsciiLowercase[c] ELSE c

eq_ignore_ascii_case(a, b) ==
    /\ Len(a) = Len(b)
    /\ \A i \in 1..Len(a) : to_ascii_lowercase(a[i]) = to_ascii_lowercase(b[i])

(***************************************************************************)
(* PrimaryAccountType: an Rc<PrimaryAccountType> is identified by its      *)
(* name; "None" is the absent Option.                                      *)
(***************************************************************************)
NoType == "None"

PrimaryAccountTypes ==
    [Assets      |-> [on_debit |-> "Increase", on_credit |-> "Decrease"],
     Liabilities |-> [on_debit |-> "Decrease", on_credit |-> "Increase"],
     Equity      |-> [on_debit |-> "Increase", on_credit |-> "Decrease"]]

on_debit(t) == PrimaryAccountTypes[t].on_debit

on_credit(t) == PrimaryAccountTypes[t].on_credit

(***************************************************************************)
(* A constructor that panics returns no node.                              *)
(***************************************************************************)
Panic == [kind |-> "panic"]

(***************************************************************************)
(* Node objects.                                                           *)
(***************************************************************************)
RootName == <<"r", "o", "o", "t">>

RootNodeNew ==
    [kind |-> "Root", level |-> 0, name |-> RootName, parent |-> None,
     children |-> <<>>, account_type |-> NoType, amount |-> 0]

\* AccountTreeNode::amount: a RootNode always answers 0.
amount(ns, n) == IF ns[n].kind = "Root" THEN 0 ELSE ns[n].amount

\* AccountTreeNode::set_amount: a RootNode discards the value.
set_amount(ns, n, v) ==
    IF ns[n].kind = "Root" THEN ns ELSE [ns EXCEPT ![n].amount = v]

\* AccountTreeNode::set_level: a RootNode discards the value, the other
\* nodes store it unchecked.
set_level(ns, n, level) ==
    IF ns[n].kind = "Root" THEN ns ELSE [ns EXCEPT ![n].level = level]

\* AccountTreeNode::set_name: every node, the RootNode included, stores the
\* name.
set_name(ns, n, name) == [ns EXCEPT ![n].name = name]

\* add_child with the slip of an AccountNode pushing the child as well.
add_child_account_pushes(ns, p, c) == [ns EXCEPT ![p].children = Append(@, c)]

\* ParentNodeT::add_child: RootNode and AccountTagNode push, AccountNode
\* discards the child.
add_child(ns, p, c) ==
    IF ns[p].kind = "Account" THEN ns
    ELSE [ns EXCEPT ![p].children = Append(@, c)]

RECURSIVE WalkToLevel1(_, _)

\* The ancestor walk with the slip of not looking at node p itself.
WalkToLevel1_SkipsStart(ns, p) ==
    IF ns[p].parent = None THEN None
    ELSE WalkToLevel1(ns, ns[p].parent)

\* The ancestor walk of AccountTagNode::new: from node p upwards along
\* parent() until a node of level 1; None when the chain ends first.
WalkToLevel1(ns, p) ==
    IF ns[p].level = 1 THEN p
    ELSE IF ns[p].parent = None THEN None
    ELSE WalkToLevel1(ns, ns[p].parent)

\* AccountTagNode::new: the node built, or Panic.
AccountTagNodeNew(ns, level, name, parent, account_type) ==
    IF level < 1 THEN Panic
    ELSE IF level > 1 THEN
        IF parent = None THEN Panic
        ELSE LET a == WalkToLevel1(ns, parent) IN
             IF a = None THEN Panic
             ELSE [kind |-> "Tag", level |-> level, name |-> name,
                   parent |-> parent, children |-> <<>>,
                   account_type |-> ns[a].account_type, amount |-> 0]
    ELSE IF account_type = NoType THEN Panic
    ELSE [kind |-> "Tag", level |-> level, name |-> name, parent |-> parent,
          children |-> <<>>, account_type |-> account_type, amount |-> 0]

\* AccountNode::new: the node built, or Panic (unwrap of a None parent).
AccountNodeNew(ns, level, name, parent) ==
    IF parent = None THEN Panic
    ELSE [kind |-> "Account", level |-> level, name |-> name,
          parent |-> parent, children |-> <<>>,
          account_type |-> ns[parent].account_type, amount |-> 0]

(***************************************************************************)
(* Ancestors iterator: the nodes on the parent chain of n, nearest first.  *)
(***************************************************************************)
RECURSIVE Ancestors(_, _)
Ancestors(ns, n) ==
    IF ns[n].parent = None THEN <<>>
    ELSE <<ns[n].parent>> \o Ancestors(ns, ns[n].parent)

\* The first node of level 1 on the parent chain of n, None if there is none.
NearestLevel1Ancestor(ns, n) ==
    LET chain == Ancestors(ns, n)
        hits == {i \in 1..Len(chain) : ns[chain[i]].level = 1}
    IN IF hits = {} THEN None
       ELSE chain[CHOOSE i \in hits : \A j \in hits : i <= j]

(***************************************************************************)
(* DFS::traverse.  The instance keeps its cursor `node`: every visited     *)
(* child is assigned to it before the recursive call, and nothing moves it *)
(* back.  The value is the Option returned and the cursor left behind.     *)
(***************************************************************************)
RECURSIVE traverse(_, _, _), traverse_children(_, _, _, _, _)

\* traverse with the slip of walking the child list from its last element.
traverse_children_reversed(ns, kids, i, name, cursor) ==
    IF i > Len(kids) THEN [result |-> None, node |-> cursor]
    ELSE LET r == traverse(ns, kids[Len(kids) + 1 - i], name) IN
         IF r.result # None THEN r
         ELSE traverse_children(ns, kids, i + 1, name, r.node)

\* The `for child in children.iter()` loop of traverse, from child i on.
traverse_children(ns, kids, i, name, cursor) ==
    IF i > Len(kids) THEN [result |-> None, node |-> cursor]
    ELSE LET r == traverse(ns, kids[i], name) IN
         IF r.result # None THEN r
         ELSE traverse_children(ns, kids, i + 1, name, r.node)

\* traverse with the slip of giving up after the first child.
traverse_first_child_only(ns, node, name) ==
    IF eq_ignore_ascii_case(ns[node].name, name)
    THEN [result |-> node, node |-> node]
    ELSE IF ns[node].children = <<>> THEN [result |-> None, node |-> node]
    ELSE traverse(ns, ns[node].children[1], name)

\* traverse with the slip of putting the cursor back where the call began.
traverse_rewinds(ns, node, name) ==
    IF eq_ignore_ascii_case(ns[node].name, name)
    THEN [result |-> node, node |-> node]
    ELSE [result |-> traverse_children(ns, ns[node].children, 1, name,
                                       node).result,
          node |-> node]

traverse(ns, node, name) ==
    IF eq_ignore_ascii_case(ns[node].name, name)
    THEN [result |-> node, node |-> node]
    ELSE traverse_children(ns, ns[node].children, 1, name, node)

(***************************************************************************)
(* DFS::traverse, one step at a time.  A call in progress is the cursor    *)
(* `node`, the stack of activations of traverse, each the node it was      *)
(* entered on and the index `i` of the child its loop is at (0 before the  *)
(* name has been compared), the nodes whose names have been compared so    *)
(* far, and the value returned once the outermost activation has returned. *)
(***************************************************************************)
\* The call traverse(name) as it is entered, the cursor on `node`.
traverse_enter(node) ==
    [node |-> node, stack |-> <<[node |-> node, i |-> 0]>>,
     inspected |-> <<>>, done |-> FALSE, ret |-> None]

\* The innermost activation returns r: Some(result) is handed on by every
\* caller at once, None lets the caller's loop go on to its next child.
traverse_return(call, r) ==
    LET rest == SubSeq(call.stack, 1, Len(call.stack) - 1) IN
    IF rest = <<>> \/ r # None
    THEN [call EXCEPT !.stack = <<>>, !.done = TRUE, !.ret = r]
    ELSE [call EXCEPT !.stack = [rest EXCEPT ![Len(rest)].i = @ + 1]]

\* One step with the slip of not moving a caller's loop on to its next child.
traverse_step_repeats_child(ns, call, name) ==
    LET top == call.stack[Len(call.stack)]
        kids == ns[top.node].children
        rest == SubSeq(call.stack, 1, Len(call.stack) - 1)
    IN IF top.i = 0
       THEN LET seen == [call EXCEPT !.inspected = Append(@, top.node)] IN
            IF eq_ignore_ascii_case(ns[top.node].name, name)
            THEN traverse_return(seen, top.node)
            ELSE [seen EXCEPT !.stack[Len(call.stack)].i = 1]
       ELSE IF top.i <= Len(kids)
       THEN [call EXCEPT !.node = kids[top.i],
                         !.stack = Append(@, [node |-> kids[top.i], i |-> 0])]
       ELSE IF rest = <<>> THEN traverse_return(call, None)
       ELSE [call EXCEPT !.stack = rest]

\* One step of the innermost activation: the name comparison, the descent
\* into the next child with the cursor assigned to it, or the return of
\* None after the last child.
traverse_step(ns, call, name) ==
    LET top == call.stack[Len(call.stack)]
        kids == ns[top.node].children
    IN IF top.i = 0
       THEN LET seen == [call EXCEPT !.inspected = Append(@, top.node)] IN
            IF eq_ignore_ascii_case(ns[top.node].name, name)
            THEN traverse_return(seen, top.node)
            ELSE [seen EXCEPT !.stack[Len(call.stack)].i = 1]
       ELSE IF top.i <= Len(kids)
       THEN [call EXCEPT !.node = kids[top.i],
                         !.stack = Append(@, [node |-> kids[top.i], i |-> 0])]
       ELSE traverse_return(call, None)

\* DFS::new
DFSNewInstance(root) == [root |-> root, node |-> root]

\* AccountTree::get_node_by_name: a new DFS on the tree root, one traverse.
get_node_by_name(ns, root, name) ==
    traverse(ns, DFSNewInstance(root).node, name).result

(***************************************************************************)
(* Trees for the lookup, aggregation and build specifications.  A tree is  *)
(* grown with the constructors and add_child, node after node, as the      *)
(* repository's fixtures do: a node directly under the Root is a level-1   *)
(* tag, a deeper node is a tag when it gets children and an account when   *)
(* it does not.  The level argument of a deeper node is its depth or, as   *)
(* for the fixture's Retained Earnings tag, more than its depth.           *)
(***************************************************************************)
TreeRoot == 1

RECURSIVE Grow(_, _)
Grow(ns, plan) ==
    IF plan = <<>> THEN ns
    ELSE LET s == Head(plan)
             node == IF s.kind = "Tag"
                     THEN AccountTagNodeNew(ns, s.level, s.name, s.parent,
                                            s.account_type)
                     ELSE AccountNodeNew(ns, s.level, s.name, s.parent)
             grown == Append(ns, node)
         IN Grow(add_child(grown, s.parent, Len(grown)), Tail(plan))

\* Parent assignments of nodes 2..n: every node hangs under an earlier one.
ParentMaps(n) == {pm \in [2..n -> 1..n] : \A i \in 2..n : pm[i] < i}

\* The number of parents between node i and the Root, the Root counted.
RECURSIVE DepthIn(_, _)
DepthIn(pm, i) == IF i = TreeRoot THEN 0 ELSE DepthIn(pm, pm[i]) + 1

\* By how much the level argument of a node below a level-1 tag exceeds
\* its depth.
LevelSkips == {0, 1}

\* The level argument of node i: 1 directly under the Root, the depth plus
\* the skip chosen for the node below.
LevelIn(pm, sk, i) ==
    IF DepthIn(pm, i) <= 1 THEN DepthIn(pm, i) ELSE DepthIn(pm, i) + sk[i]

Plan(n, pm, nm, ty, sk) ==
    [k \in 1..(n - 1) |->
        LET i == k + 1
            depth == DepthIn(pm, i)
        IN [kind |-> IF depth = 1 \/ (\E j \in 2..n : pm[j] = i)
                     THEN "Tag" ELSE "Account",
            level |-> LevelIn(pm, sk, i), name |-> nm[i], parent |-> pm[i],
            account_type |-> IF depth = 1 THEN ty[i] ELSE NoType]]

\* The trees of n nodes with names from `names` and level-1 types from `types`.
Trees(n, names, types) ==
    {Grow(<<RootNodeNew>>, Plan(n, pm, nm, ty, sk)) :
        pm \in ParentMaps(n), nm \in [2..n -> names], ty \in [2..n -> types],
        sk \in [2..n -> LevelSkips]}

\* As Plan, with every childless node an account: an account directly under
\* the Root has no account type to take.
UntypedPlan(n, pm, nm, ty, sk) ==
    [k \in 1..(n - 1) |->
        LET i == k + 1
            depth == DepthIn(pm, i)
        IN [kind |-> IF \E j \in 2..n : pm[j] = i THEN "Tag" ELSE "Account",
            level |-> LevelIn(pm, sk, i), name |-> nm[i], parent |-> pm[i],
            account_type |-> IF depth = 1 THEN ty[i] ELSE NoType]]

UntypedTrees(n, names, types) ==
    {Grow(<<RootNodeNew>>, UntypedPlan(n, pm, nm, ty, sk)) :
        pm \in ParentMaps(n), nm \in [2..n -> names], ty \in [2..n -> types],
        sk \in [2..n -> LevelSkips]}

\* The nodes of the tree under node n, in pre-order: a node before its
\* children, children in child-list order.
RECURSIVE PreOrder(_, _), PreOrderOfList(_, _)
PreOrderOfList(ns, kids) ==
    IF kids = <<>> THEN <<>>
    ELSE PreOrder(ns, Head(kids)) \o PreOrderOfList(ns, Tail(kids))

PreOrder(ns, n) == <<n>> \o PreOrderOfList(ns, ns[n].children)

SeqToSet(sq) == {sq[i] : i \in 1..Len(sq)}

(***************************************************************************)
(* AmountAggregator::aggregate.  It starts at the instance's cursor        *)
(* `node`, reads the node's own amount before it descends, assigns every   *)
(* child to the cursor, adds each child's amount after the child has been  *)
(* aggregated, and stores the total in the node.  The value is the tree    *)
(* after the run, the node returned and the cursor left behind.            *)
(***************************************************************************)
RECURSIVE aggregate(_, _), aggregate_children(_, _, _, _, _)

\* aggregate with the slip of adding each child's amount as it was before the
\* child was aggregated.
aggregate_children_stale(ns, kids, i, total, cursor) ==
    IF i > Len(kids) THEN [nodes |-> ns, total |-> total, node |-> cursor]
    ELSE LET r == aggregate(ns, kids[i]) IN
         aggregate_children(r.nodes, kids, i + 1,
                            total + amount(ns, kids[i]), r.node)

\* aggregate with the slip of leaving the loop after the first child.
aggregate_children_first_only(ns, kids, i, total, cursor) ==
    IF i > Len(kids) \/ i > 1
    THEN [nodes |-> ns, total |-> total, node |-> cursor]
    ELSE LET r == aggregate(ns, kids[i]) IN
         aggregate_children(r.nodes, kids, i + 1,
                            total + amount(r.nodes, r.ret), r.node)

\* The `for child_node in children.iter()` loop of aggregate, from child i.
aggregate_children(ns, kids, i, total, cursor) ==
    IF i > Len(kids) THEN [nodes |-> ns, total |-> total, node |-> cursor]
    ELSE LET r == aggregate(ns, kids[i]) IN
         aggregate_children(r.nodes, kids, i + 1,
                            total + amount(r.nodes, r.ret), r.node)

\* aggregate with the slip of starting the total at 0 instead of the node's
\* own amount.
aggregate_from_zero(ns, node) ==
    IF ns[node].children = <<>>
    THEN [nodes |-> ns, ret |-> node, node |-> node]
    ELSE LET r == aggregate_children(ns, ns[node].children, 1, 0, node)
         IN [nodes |-> set_amount(r.nodes, node, r.total), ret |-> node,
             node |-> r.node]

\* aggregate with the slip of leaving the total out of the node.
aggregate_skips_store(ns, node) ==
    IF ns[node].children = <<>>
    THEN [nodes |-> ns, ret |-> node, node |-> node]
    ELSE LET r == aggregate_children(ns, ns[node].children, 1,
                                     amount(ns, node), node)
         IN [nodes |-> r.nodes, ret |-> node, node |-> r.node]

aggregate(ns, node) ==
    IF ns[node].children = <<>>
    THEN [nodes |-> ns, ret |-> node, node |-> node]
    ELSE LET r == aggregate_children(ns, ns[node].children, 1,
                                     amount(ns, node), node)
         IN [nodes |-> set_amount(r.nodes, node, r.total), ret |-> node,
             node |-> r.node]

\* AmountAggregator::new
AmountAggregatorNew(root) == [root |-> root, node |-> root]

\* AmountAggregator::set_root: the root is replaced, the cursor is not.
AmountAggregator_set_root(a, root) == [a EXCEPT !.root = root]

(***************************************************************************)
(* BalanceSheet::build.                                                    *)
(*                                                                         *)
(* ledger is the Vec<JournalEntry> of the Ledger; a TransactionEntry is    *)
(* [account, amount, entry_type], account being the AccountNodeRef.        *)
(***************************************************************************)
\* TransactionEntry::account_name, as build uses it: the name of the
\* entry's account node.
te_account_name(ns, te) == ns[te.account].name

\* TransactionEntry::account_type, as build uses it: the Option held by the
\* entry's account node.
te_account_type(ns, te) == ns[te.account].account_type

\* The flattened transaction entries of all journal entries, in order.
RECURSIVE transaction_entries(_)
transaction_entries(jes) ==
    IF jes = <<>> THEN <<>>
    ELSE Head(jes).transaction_entries \o transaction_entries(Tail(jes))

\* The sign build gives an entry: the account type's action for the entry's
\* type, Decrease -1 and Increase +1.
signum(ns, te) ==
    LET t == te_account_type(ns, te) IN
    IF te.entry_type = "Credit"
    THEN (IF on_credit(t) = "Decrease" THEN -1 ELSE 1)
    ELSE (IF on_debit(t) = "Decrease" THEN -1 ELSE 1)

RECURSIVE accumulate(_, _, _)

\* The first loop of build with the slip of passing over an entry whose
\* account type is None.
accumulate_skips_untyped(ns, entries, map) ==
    IF entries = <<>> THEN [panic |-> FALSE, map |-> map]
    ELSE LET te == Head(entries)
             key == te_account_name(ns, te)
         IN IF te_account_type(ns, te) = NoType
            THEN accumulate(ns, Tail(entries), map)
            ELSE LET seen == IF key \in DOMAIN map THEN map
                             ELSE map @@ (key :> 0)
                 IN accumulate(ns, Tail(entries),
                        [seen EXCEPT ![key] = @ + te.amount * signum(ns, te)])

\* The first loop of build: accounts_aggregate_map, keyed by the exact
\* account name; panics at the first entry whose account type is None.
accumulate(ns, entries, map) ==
    IF entries = <<>> THEN [panic |-> FALSE, map |-> map]
    ELSE LET te == Head(entries)
             key == te_account_name(ns, te)
         IN IF te_account_type(ns, te) = NoType
            THEN [panic |-> TRUE, map |-> map]
            ELSE LET seen == IF key \in DOMAIN map THEN map
                             ELSE map @@ (key :> 0)
                 IN accumulate(ns, Tail(entries),
                        [seen EXCEPT ![key] = @ + te.amount * signum(ns, te)])

EmptyMap == [k \in {} |-> 0]

RECURSIVE write_totals(_, _, _, _, _)

\* The second loop of build: one DFS instance, whose cursor is where the
\* previous traverse left it, looks up every name of the map in the map's
\* iteration order and overwrites the amount of the node found; panics on
\* the first name not found.
write_totals(ns, cursor, order, map, i) ==
    IF i > Len(order)
    THEN [nodes |-> ns, status |-> "ok", name |-> <<>>]
    ELSE LET r == traverse(ns, cursor, order[i]) IN
         IF r.result = None
         THEN [nodes |-> ns, status |-> "orphan", name |-> order[i]]
         ELSE write_totals(set_amount(ns, r.result, map[order[i]]),
                           r.node, order, map, i + 1)

\* build with the slip of setting every childless node to 0 before the
\* totals are written.
build_resets_leaves(ns, root, jes, order) ==
    LET acc == accumulate(ns, transaction_entries(jes), EmptyMap)
        zeroed == [n \in DOMAIN ns |->
                      IF ns[n].children = <<>>
                      THEN [ns[n] EXCEPT !.amount = 0] ELSE ns[n]]
    IN IF acc.panic
       THEN [nodes |-> ns, status |-> "no_type", name |-> <<>>]
       ELSE LET w == write_totals(zeroed, DFSNewInstance(root).node, order,
                                  acc.map, 1)
            IN IF w.status # "ok" THEN w
               ELSE [nodes |-> aggregate(w.nodes,
                                         AmountAggregatorNew(root).node).nodes,
                     status |-> "ok", name |-> <<>>]

\* build: `order` is the iteration order of the HashMap.
build(ns, root, jes, order) ==
    LET acc == accumulate(ns, transaction_entries(jes), EmptyMap) IN
    IF acc.panic
    THEN [nodes |-> ns, status |-> "no_type", name |-> <<>>]
    ELSE LET w == write_totals(ns, DFSNewInstance(root).node, order,
                               acc.map, 1)
         IN IF w.status # "ok" THEN w
            ELSE [nodes |-> aggregate(w.nodes, AmountAggregatorNew(root).node).nodes,
                  status |-> "ok", name |-> <<>>]

\* The keys of accounts_aggregate_map for a ledger.
MapKeys(ns, jes) == DOMAIN accumulate(ns, transaction_entries(jes), EmptyMap).map

\* The orders in which a HashMap with the keys S can iterate.
IterationOrders(S) ==
    {o \in [1..Cardinality(S) -> S] :
        \A i, j \in 1..Cardinality(S) : o[i] = o[j] => i = j}

(***************************************************************************)
(* BalanceSheet::accounts_total and is_balanced.  accounts_total makes one *)
(* DFS instance and looks every name up with it, in list order.            *)
(***************************************************************************)
RECURSIVE accounts_total_loop(_, _, _, _, _)
accounts_total_loop(ns, cursor, names, i, total) ==
    IF i > Len(names) THEN [ok |-> TRUE, total |-> total, name |-> <<>>]
    ELSE LET r == traverse(ns, cursor, names[i]) IN
         IF r.result = None
         THEN [ok |-> FALSE, total |-> total, name |-> names[i]]
         ELSE accounts_total_loop(ns, r.node, names, i + 1,
                                  total + amount(ns, r.result))

accounts_total(ns, root, names) ==
    accounts_total_loop(ns, DFSNewInstance(root).node, names, 1, 0)

\* is_balanced: panics when either total does.
is_balanced(ns, root, lhs, rhs) ==
    LET l == accounts_total(ns, root, lhs)
        r == accounts_total(ns, root, rhs)
    IN IF ~l.ok THEN [ok |-> FALSE, ret |-> FALSE, name |-> l.name]
       ELSE IF ~r.ok THEN [ok |-> FALSE, ret |-> FALSE, name |-> r.name]
       ELSE [ok |-> TRUE, ret |-> (l.total = r.total), name |-> <<>>]

(***************************************************************************)
(* f64 amounts of the journal.  A non-negative whole f64 is kept as two    *)
(* limbs, hi * Limb + lo; a sum is rounded to the 53 significant bits of   *)
(* an f64, ties to even, as the hardware does.                             *)
(***************************************************************************)
Limb == 2^27

F64(n) == [hi |-> 0, lo |-> n]

TwoPow53 == [hi |-> 2^26, lo |-> 0]

Normalize(hi, lo) == [hi |-> hi + (lo \div Limb), lo |-> lo % Limb]

\* The spacing of the f64 values around x, for x below 2^57.
ulp(x) ==
    IF x.hi < 2^26 THEN 1
    ELSE IF x.hi < 2^27 THEN 2
    ELSE IF x.hi < 2^28 THEN 4
    ELSE IF x.hi < 2^29 THEN 8
    ELSE 16

\* The f64 nearest to the whole number x, ties to the even mantissa.
f64_round(x) ==
    LET q == ulp(x)
        r == x.lo % q
        down == [hi |-> x.hi, lo |-> x.lo - r]
        up == Normalize(x.hi, x.lo - r + q)
    IN IF 2 * r < q THEN down
       ELSE IF 2 * r > q THEN up
       ELSE IF ((x.lo - r) \div q) % 2 = 0 THEN down
       ELSE up

\* a + b on f64.
f64_add(a, b) == f64_round(Normalize(a.hi + b.hi, a.lo + b.lo))

\* a - b on f64, for a >= b.
f64_sub(a, b) ==
    f64_round(IF a.lo >= b.lo
              THEN [hi |-> a.hi - b.hi, lo |-> a.lo - b.lo]
              ELSE [hi |-> a.hi - b.hi - 1, lo |-> a.lo + Limb - b.lo])

(***************************************************************************)
(* JournalEntry.                                                           *)
(***************************************************************************)
JournalEntryNew(id, date_of_entry) ==
    [id |-> id, date_of_entry |-> date_of_entry, transaction_entries |-> <<>>]

\* JournalEntry::set_id and JournalEntry::set_date_of_entry: the field is
\* assigned.
JournalEntry_set_id(je, id) == [je EXCEPT !.id = id]

set_date_of_entry(je, date_of_entry) ==
    [je EXCEPT !.date_of_entry = date_of_entry]

add_transaction_entry(je, te) ==
    [je EXCEPT !.transaction_entries = Append(@, te)]

\* filter(entry_type).map(amount).sum() over the transaction entries.
RECURSIVE sum_of_type(_, _, _)
sum_of_type(entries, entry_type, acc) ==
    IF entries = <<>> THEN acc
    ELSE sum_of_type(Tail(entries), entry_type,
                     IF Head(entries).entry_type = entry_type
                     THEN f64_add(acc, Head(entries).amount)
                     ELSE acc)

total_credit(je) == sum_of_type(je.transaction_entries, "Credit", F64(0))

total_debit(je) == sum_of_type(je.transaction_entries, "Debit", F64(0))

RECURSIVE validate_loop(_, _, _, _)

\* The loop of validate with the slip of stopping one entry early.
validate_loop_stops_early(entries, i, debits, credits) ==
    IF i >= Len(entries) THEN [debits |-> debits, credits |-> credits]
    ELSE IF entries[i].entry_type = "Credit"
         THEN validate_loop(entries, i + 1, debits,
                            f64_add(credits, entries[i].amount))
         ELSE validate_loop(entries, i + 1,
                            f64_add(debits, entries[i].amount), credits)

\* The loop of validate: the two accumulators after the entries from i on.
validate_loop(entries, i, debits, credits) ==
    IF i > Len(entries) THEN [debits |-> debits, credits |-> credits]
    ELSE IF entries[i].entry_type = "Credit"
         THEN validate_loop(entries, i + 1, debits,
                            f64_add(credits, entries[i].amount))
         ELSE validate_loop(entries, i + 1,
                            f64_add(debits, entries[i].amount), credits)

validate(je) ==
    LET r == validate_loop(je.transaction_entries, 1, F64(0), F64(0))
    IN r.debits = r.credits

(***************************************************************************)
(* Ledger.  The Vec<JournalEntry> is `ledger`; id, from_date and to_date   *)
(* are `ledger_fields`.  Dates are whole numbers.  An operation that       *)
(* panics leaves what it had not yet changed.                              *)
(***************************************************************************)
\* Ord::cmp on two dates.
cmp(a, b) == IF a < b THEN "Less" ELSE IF a = b THEN "Equal" ELSE "Greater"

\* Ordering::then: self unless self is Equal.
then(self, other) == IF self # "Equal" THEN self ELSE other

\* Ledger::new: the fields of the new ledger, or Panic from assert_eq!.
LedgerNew(id, from_date, to_date) ==
    IF cmp(from_date, to_date) # then("Less", "Equal") THEN Panic
    ELSE [kind |-> "Ledger", id |-> id, from_date |-> from_date,
          to_date |-> to_date, journal_entries |-> <<>>]

\* validate_journal_entry_dates with the slip of a strict lower bound.
validate_journal_entry_dates_strict(fields, je) ==
    /\ je.date_of_entry > fields.from_date
    /\ je.date_of_entry <= fields.to_date

\* validate_journal_entry_dates: TRUE when both asserts pass.
validate_journal_entry_dates(fields, je) ==
    /\ je.date_of_entry >= fields.from_date
    /\ je.date_of_entry <= fields.to_date

add_journal_entry(fields, jes, je) ==
    IF ~validate_journal_entry_dates(fields, je)
    THEN [ok |-> FALSE, journal_entries |-> jes]
    ELSE [ok |-> TRUE, journal_entries |-> Append(jes, je)]

\* The for_each over the batch: FALSE when an assert fails on some entry.
RECURSIVE validate_each(_, _)
validate_each(fields, batch) ==
    IF batch = <<>> THEN TRUE
    ELSE IF ~validate_journal_entry_dates(fields, Head(batch)) THEN FALSE
    ELSE validate_each(fields, Tail(batch))

\* add_journal_entries with the slip of pushing each entry as soon as it
\* has passed validation.
RECURSIVE add_journal_entries_one_by_one(_, _, _)
add_journal_entries_one_by_one(fields, jes, batch) ==
    IF batch = <<>> THEN [ok |-> TRUE, journal_entries |-> jes]
    ELSE IF ~validate_journal_entry_dates(fields, Head(batch))
         THEN [ok |-> FALSE, journal_entries |-> jes]
         ELSE add_journal_entries_one_by_one(fields, Append(jes, Head(batch)),
                                             Tail(batch))

add_journal_entries(fields, jes, batch) ==
    IF ~validate_each(fields, batch)
    THEN [ok |-> FALSE, journal_entries |-> jes]
    ELSE [ok |-> TRUE, journal_entries |-> jes \o batch]

set_journal_entries(fields, jes, batch) ==
    IF ~validate_each(fields, batch)
    THEN [ok |-> FALSE, journal_entries |-> jes]
    ELSE [ok |-> TRUE, journal_entries |-> batch]

\* Ledger::set_from_date and Ledger::set_to_date: the field is assigned.
set_from_date(fields, from_date) == [fields EXCEPT !.from_date = from_date]

set_to_date(fields, to_date) == [fields EXCEPT !.to_date = to_date]

\* Ledger::set_id: the field is assigned.
set_id(fields, id) == [fields EXCEPT !.id = id]

RECURSIVE remove_journal_entry(_, _)

\* remove_journal_entry with the slip of removing the first match only.
remove_journal_entry_first_only(jes, id) ==
    IF jes = <<>> THEN <<>>
    ELSE IF Head(jes).id # id
         THEN <<Head(jes)>> \o remove_journal_entry(Tail(jes), id)
         ELSE Tail(jes)

\* Vec::retain(|j| j.id() != id)
remove_journal_entry(jes, id) ==
    IF jes = <<>> THEN <<>>
    ELSE IF Head(jes).id # id
         THEN <<Head(jes)>> \o remove_journal_entry(Tail(jes), id)
         ELSE remove_journal_entry(Tail(jes), id)

remove_all_journal_entries(jes) == <<>>

\* reset with the slip of leaving the id.
reset_keeps_id(fields, jes) ==
    [fields |-> fields, journal_entries |-> remove_all_journal_entries(jes)]

\* reset: set_id(0), then remove_all_journal_entries.
reset(fields, jes) ==
    [fields |-> set_id(fields, 0),
     journal_entries |-> remove_all_journal_entries(jes)]

RECURSIVE get_journal_entry_by_between(_, _, _)

\* get_journal_entry_by_between with the slip of an exclusive end.
get_journal_entry_by_between_exclusive(jes, start_date, end_date) ==
    IF jes = <<>> THEN <<>>
    ELSE IF Head(jes).date_of_entry >= start_date
            /\ Head(jes).date_of_entry < end_date
         THEN <<Head(jes)>>
              \o get_journal_entry_by_between(Tail(jes), start_date, end_date)
         ELSE get_journal_entry_by_between(Tail(jes), start_date, end_date)

\* iter().filter(start_date <= date_of_entry <= end_date).collect()
get_journal_entry_by_between(jes, start_date, end_date) ==
    IF jes = <<>> THEN <<>>
    ELSE IF Head(jes).date_of_entry >= start_date
            /\ Head(jes).date_of_entry <= end_date
         THEN <<Head(jes)>>
              \o get_journal_entry_by_between(Tail(jes), start_date, end_date)
         ELSE get_journal_entry_by_between(Tail(jes), start_date, end_date)

(***************************************************************************)
(* Instances that exist only while an operation runs.                      *)
(***************************************************************************)
NoInstance == [root |-> None, node |-> None]

NoLedger == <<>>

\* The id and date window of a Ledger, and a JournalEntry being assembled,
\* where a specification has none.
NoLedgerFields == [id |-> 0, from_date |-> 0, to_date |-> 0]

NoJournalEntry == [id |-> 0, date_of_entry |-> 0, transaction_entries |-> <<>>]

Idle == [op |-> "init", ok |-> TRUE]

(***************************************************************************)
(* SpecTree: construction of the tree, one constructor or add_child call   *)
(* per step.  ctor_args records the arguments each node was built with.    *)
(***************************************************************************)
TreeName == <<"a">>

TypeArgs == {"Assets", "Liabilities", NoType}

InitTree ==
    /\ nodes = <<RootNodeNew>>
    /\ ctor_args = <<[level |-> 0, parent |-> None, account_type |-> NoType]>>
    /\ dfs = NoInstance
    /\ agg = NoInstance
    /\ ledger = NoLedger
    /\ ledger_fields = NoLedgerFields
    /\ journal_entry = NoJournalEntry
    /\ last = Idle

Construct(op, node, level, parent, account_type) ==
    /\ IF node.kind = "panic"
       THEN /\ last' = [op |-> op, ok |-> FALSE]
            /\ UNCHANGED <<nodes, ctor_args>>
       ELSE /\ nodes' = Append(nodes, node)
            /\ ctor_args' = Append(ctor_args,
                   [level |-> level, parent |-> parent,
                    account_type |-> account_type])
            /\ last' = [op |-> op, ok |-> TRUE]
    /\ UNCHANGED <<ledger_fields, journal_entry, dfs, agg, ledger>>

TagNodeNew ==
    /\ Len(nodes) < MaxNodes
    /\ \E level \in 0..MaxLevel, parent \in {None} \cup DOMAIN nodes,
          account_type \in TypeArgs :
          Construct("AccountTagNode::new",
                    AccountTagNodeNew(nodes, level, TreeName, parent, account_type),
                    level, parent, account_type)

AccountNodeNewCall ==
    /\ Len(nodes) < MaxNodes
    /\ \E level \in 0..MaxLevel, parent \in {None} \cup DOMAIN nodes :
          Construct("AccountNode::new",
                    AccountNodeNew(nodes, level, TreeName, parent),
                    level, parent, NoType)

\* add_child as the construction protocol uses it: the child is handed to
\* the node it names as its parent, once.
AddChild ==
    \E c \in DOMAIN nodes :
        /\ nodes[c].parent # None
        /\ \A i \in 1..Len(nodes[nodes[c].parent].children) :
               nodes[nodes[c].parent].children[i] # c
        /\ nodes' = add_child(nodes, nodes[c].parent, c)
        /\ last' = [op |-> "add_child", ok |-> TRUE, child |-> c]
        /\ UNCHANGED <<ledger_fields, journal_entry, ctor_args, dfs, agg, ledger>>

NextTree == TagNodeNew \/ AccountNodeNewCall \/ AddChild

SpecTree == InitTree /\ [][NextTree]_vars

(***************************************************************************)
(* SpecCtor: constructor calls with their arguments on record, also when   *)
(* the call panics, and set_level between them.  The constructors do not   *)
(* read child lists, so no add_child is made.                              *)
(***************************************************************************)
ConstructReport(op, node, level, parent, account_type) ==
    /\ IF node.kind = "panic"
       THEN UNCHANGED <<nodes, ctor_args>>
       ELSE /\ nodes' = Append(nodes, node)
            /\ ctor_args' = Append(ctor_args,
                   [level |-> level, parent |-> parent,
                    account_type |-> account_type])
    /\ last' = [op |-> op, ok |-> (node.kind # "panic"), level |-> level,
                parent |-> parent, account_type |-> account_type]
    /\ UNCHANGED <<dfs, agg, ledger, ledger_fields, journal_entry>>

CtorTagNode ==
    /\ Len(nodes) <= MaxCtorNodes
    /\ \E level \in 0..MaxLevel, parent \in {None} \cup DOMAIN nodes,
          account_type \in TypeArgs :
          ConstructReport("AccountTagNode::new",
                          AccountTagNodeNew(nodes, level, TreeName, parent,
                                            account_type),
                          level, parent, account_type)

CtorAccountNode ==
    /\ Len(nodes) <= MaxCtorNodes
    /\ \E level \in 0..MaxLevel, parent \in {None} \cup DOMAIN nodes :
          ConstructReport("AccountNode::new",
                          AccountNodeNew(nodes, level, TreeName, parent),
                          level, parent, NoType)

\* set_level on any node that exists; the constructor arguments on record
\* stay as they are.
SetLevel ==
    /\ \E n \in DOMAIN nodes, level \in 0..MaxLevel :
           nodes' = set_level(nodes, n, level)
    /\ last' = [op |-> "set_level", ok |-> TRUE]
    /\ UNCHANGED <<ctor_args, dfs, agg, ledger, ledger_fields, journal_entry>>

NextCtor == CtorTagNode \/ CtorAccountNode \/ SetLevel

SpecCtor == InitTree /\ [][NextCtor]_vars

(***************************************************************************)
(* SpecDFS: name lookup on a tree whose nodes can be renamed.              *)
(***************************************************************************)
NodeNames == {<<"a">>, <<"A">>, <<"b">>}

QueryNames == NodeNames \cup {<<"B">>, <<"c">>, <<"a", "b">>, RootName}

InitDFS ==
    /\ \E n \in 1..MaxTreeNodes :
           nodes \in Trees(n, NodeNames, {"Assets"})
    /\ ctor_args = <<>>
    /\ dfs = NoInstance
    /\ agg = NoInstance
    /\ ledger = NoLedger
    /\ ledger_fields = NoLedgerFields
    /\ journal_entry = NoJournalEntry
    /\ last = Idle

DFSNew ==
    /\ dfs' = DFSNewInstance(TreeRoot)
    /\ last' = [op |-> "DFS::new", ok |-> TRUE]
    /\ UNCHANGED <<ledger_fields, journal_entry, nodes, ctor_args, agg, ledger>>

DFSSetRoot ==
    /\ dfs # NoInstance
    /\ \E r \in DOMAIN nodes :
           /\ dfs' = [root |-> r, node |-> r]
           /\ last' = [op |-> "DFS::set_root", ok |-> TRUE]
    /\ UNCHANGED <<ledger_fields, journal_entry, nodes, ctor_args, agg, ledger>>

DFSTraverse ==
    /\ dfs # NoInstance
    /\ \E name \in QueryNames :
           LET r == traverse(nodes, dfs.node, name) IN
           /\ dfs' = [dfs EXCEPT !.node = r.node]
           /\ last' = [op |-> "DFS::traverse", ok |-> TRUE, name |-> name,
                       ret |-> r.result, start |-> dfs.node,
                       fresh |-> (last.op = "DFS::new")]
    /\ UNCHANGED <<ledger_fields, journal_entry, nodes, ctor_args, agg, ledger>>

GetNodeByName ==
    /\ \E name \in QueryNames :
           last' = [op |-> "get_node_by_name", ok |-> TRUE, name |-> name,
                    ret |-> get_node_by_name(nodes, TreeRoot, name),
                    start |-> TreeRoot, fresh |-> TRUE]
    /\ UNCHANGED <<ledger_fields, journal_entry, nodes, ctor_args, dfs, agg, ledger>>

\* set_name on any node of the tree, the Root included.
SetName ==
    /\ \E n \in DOMAIN nodes, name \in NodeNames :
           nodes' = set_name(nodes, n, name)
    /\ last' = [op |-> "set_name", ok |-> TRUE]
    /\ UNCHANGED <<ctor_args, dfs, agg, ledger, ledger_fields, journal_entry>>

NextDFS == DFSNew \/ DFSSetRoot \/ DFSTraverse \/ GetNodeByName \/ SetName

SpecDFS == InitDFS /\ [][NextDFS]_vars

(***************************************************************************)
(* SpecDFSSteps: traverse calls on one DFS instance, taken step by step.   *)
(* A call that has been entered runs on until it returns.                  *)
(***************************************************************************)
StepNames == {<<"a">>, <<"b">>}

StepQueries == {<<"A">>, <<"b">>, <<"c">>}

InitDFSSteps ==
    /\ \E n \in 1..MaxTreeNodes :
           nodes \in Trees(n, StepNames, {"Assets"})
    /\ ctor_args = <<>>
    /\ dfs = [root |-> TreeRoot, node |-> TreeRoot, stack |-> <<>>]
    /\ agg = NoInstance
    /\ ledger = NoLedger
    /\ ledger_fields = NoLedgerFields
    /\ journal_entry = NoJournalEntry
    /\ last = Idle

\* What a call in progress leaves in the instance and on record.
TraverseProgress(call, name, start) ==
    /\ dfs' = [dfs EXCEPT !.node = call.node, !.stack = call.stack]
    /\ last' = [op |-> "DFS::traverse", ok |-> TRUE, name |-> name,
                start |-> start, inspected |-> call.inspected,
                done |-> call.done, ret |-> call.ret]
    /\ UNCHANGED <<nodes, ctor_args, agg, ledger, ledger_fields,
                   journal_entry>>

TraverseEnter ==
    /\ dfs.stack = <<>>
    /\ \E name \in StepQueries :
           TraverseProgress(traverse_enter(dfs.node), name, dfs.node)

TraverseStep ==
    /\ dfs.stack # <<>>
    /\ TraverseProgress(
           traverse_step(nodes,
                         [node |-> dfs.node, stack |-> dfs.stack,
                          inspected |-> last.inspected, done |-> last.done,
                          ret |-> last.ret],
                         last.name),
           last.name, last.start)

StepsSetRoot ==
    /\ dfs.stack = <<>>
    /\ last.op = "DFS::traverse"
    /\ dfs' = [dfs EXCEPT !.node = dfs.root]
    /\ last' = [op |-> "DFS::set_root", ok |-> TRUE]
    /\ UNCHANGED <<nodes, ctor_args, agg, ledger, ledger_fields,
                   journal_entry>>

NextDFSSteps == TraverseEnter \/ TraverseStep \/ StepsSetRoot

SpecDFSSteps ==
    InitDFSSteps /\ [][NextDFSSteps]_vars /\ WF_vars(TraverseStep)

(***************************************************************************)
(* SpecTotals: one accounts_total call on a tree whose nodes hold amounts. *)
(***************************************************************************)
\* Sequences of at most n elements of S.
SeqsUpTo(S, n) == UNION {[1..k -> S] : k \in 0..n}

\* Every node is given an amount of its own with set_amount.
RECURSIVE AssignAmounts(_, _)
AssignAmounts(ns, n) ==
    IF n = 0 THEN ns ELSE AssignAmounts(set_amount(ns, n, 100 * n), n - 1)

InitTotals ==
    /\ \E n \in 1..MaxTreeNodes :
           \E t \in Trees(n, NodeNames, {"Assets"}) :
               nodes = AssignAmounts(t, Len(t))
    /\ ctor_args = <<>>
    /\ dfs = NoInstance
    /\ agg = NoInstance
    /\ ledger = NoLedger
    /\ ledger_fields = NoLedgerFields
    /\ journal_entry = NoJournalEntry
    /\ last = Idle

AccountsTotal ==
    /\ last = Idle
    /\ \E names \in SeqsUpTo(QueryNames, MaxNames) :
           LET r == accounts_total(nodes, TreeRoot, names) IN
           last' = [op |-> "accounts_total", ok |-> r.ok, names |-> names,
                    ret |-> r.total, name |-> r.name]
    /\ UNCHANGED <<ledger_fields, journal_entry, nodes, ctor_args, dfs, agg, ledger>>

NextTotals == AccountsTotal

SpecTotals == InitTotals /\ [][NextTotals]_vars

(***************************************************************************)
(* SpecAgg: amounts are assigned to the nodes of a tree, then aggregators  *)
(* are created on the tree root and run.                                   *)
(***************************************************************************)
AmountValues == {0, 800, 1200}

InitAgg ==
    /\ \E n \in 1..MaxAggNodes : nodes \in Trees(n, {TreeName}, {"Assets"})
    /\ ctor_args = <<>>
    /\ dfs = NoInstance
    /\ agg = NoInstance
    /\ ledger = NoLedger
    /\ ledger_fields = NoLedgerFields
    /\ journal_entry = NoJournalEntry
    /\ last = Idle

\* AccountTreeNode::set_amount on a node of the tree, before any aggregator
\* exists.
SetAmount ==
    /\ agg = NoInstance
    /\ \E n \in DOMAIN nodes, v \in AmountValues \ {0} :
           /\ nodes' = set_amount(nodes, n, v)
           /\ last' = [op |-> "set_amount", ok |-> TRUE]
    /\ UNCHANGED <<ledger_fields, journal_entry, ctor_args, dfs, agg, ledger>>

AggNew ==
    /\ agg' = AmountAggregatorNew(TreeRoot)
    /\ last' = [op |-> "AmountAggregator::new", ok |-> TRUE]
    /\ UNCHANGED <<ledger_fields, journal_entry, nodes, ctor_args, dfs, ledger>>

AggAggregate ==
    /\ agg # NoInstance
    /\ \A n \in DOMAIN nodes : nodes[n].amount <= MaxAmount
    /\ LET r == aggregate(nodes, agg.node) IN
       /\ nodes' = r.nodes
       /\ agg' = [agg EXCEPT !.node = r.node]
       /\ last' = [op |-> "aggregate", ok |-> TRUE, ret |-> r.ret,
                   start |-> agg.node,
                   fresh |-> (last.op = "AmountAggregator::new"),
                   before |-> nodes]
    /\ UNCHANGED <<ledger_fields, journal_entry, ctor_args, dfs, ledger>>

NextAgg == SetAmount \/ AggNew \/ AggAggregate

SpecAgg == InitAgg /\ [][NextAgg]_vars

(***************************************************************************)
(* SpecAggRoot: as SpecAgg, with set_root calls on the aggregator.         *)
(***************************************************************************)
AggSetRoot ==
    /\ agg # NoInstance
    /\ \E r \in DOMAIN nodes :
           /\ agg' = AmountAggregator_set_root(agg, r)
           /\ last' = [op |-> "AmountAggregator::set_root", ok |-> TRUE,
                       root |-> r]
    /\ UNCHANGED <<ledger_fields, journal_entry, nodes, ctor_args, dfs, ledger>>

NextAggRoot == SetAmount \/ AggNew \/ AggSetRoot \/ AggAggregate

SpecAggRoot == InitAgg /\ [][NextAggRoot]_vars

(***************************************************************************)
(* SpecBuild: a tree, a ledger of transaction entries against the account  *)
(* nodes of the tree, and build() calls.                                   *)
(***************************************************************************)
TxAmounts == {400, 700}

Accounts(ns) == {n \in DOMAIN ns : ns[n].kind = "Account"}

TxEntries(ns) ==
    [account : Accounts(ns), amount : TxAmounts, entry_type : {"Credit", "Debit"}]

\* A ledger of two journal entries: the first transaction entry in one, the
\* others in the next.
LedgerOf(entries) ==
    IF entries = <<>> THEN <<>>
    ELSE <<[id |-> 1, transaction_entries |-> <<Head(entries)>>],
           [id |-> 2, transaction_entries |-> Tail(entries)]>>

InitBuild ==
    /\ \E n \in 1..MaxBuildNodes :
           nodes \in Trees(n, NodeNames, {"Assets", "Liabilities"})
    /\ \E k \in 0..MaxEntries :
           \E entries \in [1..k -> TxEntries(nodes)] :
               ledger = LedgerOf(entries)
    /\ ctor_args = <<>>
    /\ dfs = NoInstance
    /\ agg = NoInstance
    /\ ledger_fields = NoLedgerFields
    /\ journal_entry = NoJournalEntry
    /\ last = Idle

Build ==
    /\ \A n \in DOMAIN nodes :
           nodes[n].amount <= MaxAmount /\ -nodes[n].amount <= MaxAmount
    /\ \E order \in IterationOrders(MapKeys(nodes, ledger)) :
           LET r == build(nodes, TreeRoot, ledger, order) IN
           /\ nodes' = r.nodes
           /\ last' = [op |-> "build", ok |-> (r.status = "ok"),
                       status |-> r.status, name |-> r.name,
                       order |-> order, before |-> nodes]
    /\ UNCHANGED <<ledger_fields, journal_entry, ctor_args, dfs, agg, ledger>>

NextBuild == Build

SpecBuild == InitBuild /\ [][NextBuild]_vars

(***************************************************************************)
(* SpecScenario: the fixture tree of the ledger tests and the ledger of    *)
(* the loan / purchase / sale scenario, whole or with one transaction      *)
(* entry left out; build() and the balance queries.                        *)
(***************************************************************************)
Asset == <<"A", "s", "s", "e", "t">>
Liabilities == <<"L", "i", "a", "b", "i", "l", "i", "t", "i", "e", "s">>
OwnersEquity == <<"O", "w", "n", "e", "r", "'", "s", " ", "E", "q", "u", "i", "t", "y">>
CurrentAssets == <<"C", "u", "r", "r", "e", "n", "t", " ", "A", "s", "s", "e", "t", "s">>
CurrentLiabilities == <<"C", "u", "r", "r", "e", "n", "t", " ", "L", "i", "a", "b", "i", "l", "i", "t", "i", "e", "s">>
RetainedEarnings == <<"R", "e", "t", "a", "i", "n", "e", "d", " ", "E", "a", "r", "n", "i", "n", "g", "s">>
Cash == <<"C", "a", "s", "h">>
Inventory == <<"I", "n", "v", "e", "n", "t", "o", "r", "y">>
ShortTermLoan == <<"S", "h", "o", "r", "t", " ", "T", "e", "r", "m", " ", "L", "o", "a", "n">>
Revenue == <<"R", "e", "v", "e", "n", "u", "e">>
CostOfSales == <<"C", "o", "s", "t", " ", "o", "f", " ", "S", "a", "l", "e", "s">>

\* test::get_account_nodes_map: the nodes in construction order.
FixturePlan ==
    <<[kind |-> "Tag", level |-> 1, name |-> Asset, parent |-> 1,
       account_type |-> "Assets"],
      [kind |-> "Tag", level |-> 1, name |-> Liabilities, parent |-> 1,
       account_type |-> "Liabilities"],
      [kind |-> "Tag", level |-> 1, name |-> OwnersEquity, parent |-> 1,
       account_type |-> "Equity"],
      [kind |-> "Tag", level |-> 2, name |-> CurrentAssets, parent |-> 2,
       account_type |-> NoType],
      [kind |-> "Tag", level |-> 2, name |-> CurrentLiabilities, parent |-> 3,
       account_type |-> NoType],
      [kind |-> "Tag", level |-> 3, name |-> RetainedEarnings, parent |-> 4,
       account_type |-> NoType],
      [kind |-> "Account", level |-> 3, name |-> Cash, parent |-> 5,
       account_type |-> NoType],
      [kind |-> "Account", level |-> 3, name |-> Inventory, parent |-> 5,
       account_type |-> NoType],
      [kind |-> "Account", level |-> 3, name |-> ShortTermLoan, parent |-> 6,
       account_type |-> NoType],
      [kind |-> "Account", level |-> 3, name |-> Revenue, parent |-> 7,
       account_type |-> NoType],
      [kind |-> "Account", level |-> 3, name |-> CostOfSales, parent |-> 7,
       account_type |-> NoType]>>

FixtureTree == Grow(<<RootNodeNew>>, FixturePlan)

CashNode == 8
InventoryNode == 9
ShortTermLoanNode == 10
RevenueNode == 11
CostOfSalesNode == 12

Tx(account, amt, entry_type) ==
    [account |-> account, amount |-> amt, entry_type |-> entry_type]

\* test::test_journal_entry_creation: the eight transaction entries.
ScenarioEntries ==
    <<Tx(ShortTermLoanNode, 400, "Credit"), Tx(CashNode, 400, "Debit"),
      Tx(CashNode, 400, "Credit"), Tx(InventoryNode, 400, "Debit"),
      Tx(InventoryNode, 400, "Credit"), Tx(CashNode, 700, "Debit"),
      Tx(RevenueNode, 700, "Credit"), Tx(CostOfSalesNode, 400, "Debit")>>

\* The entries with entry `skip` left out (0: none), in the two journal
\* entries of the test.
ScenarioLedger(skip) ==
    LET keep(lo, hi) ==
            SelectSeq([k \in 1..(hi - lo + 1) |-> lo + k - 1],
                      LAMBDA i : i # skip)
        pick(idx) == [k \in 1..Len(idx) |-> ScenarioEntries[idx[k]]]
    IN <<[id |-> 1, transaction_entries |-> pick(keep(1, 4))],
         [id |-> 2, transaction_entries |-> pick(keep(5, 8))]>>

ScenarioTotals ==
    {<<Cash>>, <<Asset>>, <<Liabilities>>, <<OwnersEquity>>,
     <<Liabilities, OwnersEquity>>, <<OwnersEquity, Liabilities>>,
     <<Asset, Cash>>}

InitScenario ==
    /\ nodes = FixtureTree
    /\ \E skip \in 0..Len(ScenarioEntries) : ledger = ScenarioLedger(skip)
    /\ ctor_args = <<>>
    /\ dfs = NoInstance
    /\ agg = NoInstance
    /\ ledger_fields = NoLedgerFields
    /\ journal_entry = NoJournalEntry
    /\ last = Idle

\* build(), once, on the tree as constructed.
ScenarioBuild == last = Idle /\ Build

\* Whether the last call was a build() that completed.
Built == last.op = "build" /\ last.ok

\* A query on the tree as constructed or as build() left it.
ScenarioAccountsTotal ==
    /\ last.op \in {"init", "build"}
    /\ \E names \in ScenarioTotals :
           LET r == accounts_total(nodes, TreeRoot, names) IN
           last' = [op |-> "accounts_total", ok |-> r.ok, names |-> names,
                    ret |-> r.total, name |-> r.name, built |-> Built]
    /\ UNCHANGED <<ledger_fields, journal_entry, nodes, ctor_args, dfs, agg, ledger>>

ScenarioIsBalanced ==
    /\ last.op \in {"init", "build"}
    /\ \E rhs \in {<<Liabilities, OwnersEquity>>, <<OwnersEquity, Liabilities>>} :
           LET r == is_balanced(nodes, TreeRoot, <<Asset>>, rhs) IN
           last' = [op |-> "is_balanced", ok |-> r.ok, lhs |-> <<Asset>>,
                    rhs |-> rhs, ret |-> r.ret, name |-> r.name,
                    built |-> Built]
    /\ UNCHANGED <<ledger_fields, journal_entry, nodes, ctor_args, dfs, agg, ledger>>

NextScenario == ScenarioBuild \/ ScenarioAccountsTotal \/ ScenarioIsBalanced

SpecScenario == InitScenario /\ [][NextScenario]_vars

(***************************************************************************)
(* SpecLedger: a Ledger and its single-entry operations.                   *)
(***************************************************************************)
Dates == 0..MaxDate

JournalIds == {1, 2}

RemoveIds == JournalIds \cup {3}

LedgerId == 1

\* The ids Ledger::set_id is called with.
LedgerIds == {LedgerId, 2}

\* JournalEntry::new for every id and date; the ledger never looks at the
\* transaction entries.
JournalEntries == {JournalEntryNew(id, d) : id \in JournalIds, d \in Dates}

FieldsOf(l) == [id |-> l.id, from_date |-> l.from_date, to_date |-> l.to_date]

InitLedger ==
    /\ nodes = <<RootNodeNew>>
    /\ ctor_args = <<>>
    /\ dfs = NoInstance
    /\ agg = NoInstance
    /\ \E from_date \in Dates, to_date \in Dates :
           LET l == LedgerNew(LedgerId, from_date, to_date) IN
           /\ l.kind # "panic"
           /\ ledger = l.journal_entries
           /\ ledger_fields = FieldsOf(l)
           /\ last = [op |-> "Ledger::new", ok |-> TRUE, id |-> LedgerId,
                      from_date |-> from_date, to_date |-> to_date]
    /\ journal_entry = NoJournalEntry

\* Ledger::new: a new ledger takes the place of the old one, unless the
\* constructor panics.
LedgerNewCall ==
    /\ \E from_date \in Dates, to_date \in Dates :
           LET l == LedgerNew(LedgerId, from_date, to_date) IN
           /\ last' = [op |-> "Ledger::new", ok |-> (l.kind # "panic"),
                       id |-> LedgerId, from_date |-> from_date,
                       to_date |-> to_date]
           /\ IF l.kind = "panic"
              THEN UNCHANGED <<ledger, ledger_fields>>
              ELSE /\ ledger' = l.journal_entries
                   /\ ledger_fields' = FieldsOf(l)
    /\ UNCHANGED <<nodes, ctor_args, dfs, agg, journal_entry>>

AddJournalEntry ==
    /\ Len(ledger) < MaxLedgerEntries
    /\ \E je \in JournalEntries :
           LET r == add_journal_entry(ledger_fields, ledger, je) IN
           /\ ledger' = r.journal_entries
           /\ last' = [op |-> "add_journal_entry", ok |-> r.ok, entry |-> je,
                       before |-> ledger]
    /\ UNCHANGED <<nodes, ctor_args, dfs, agg, ledger_fields, journal_entry>>

RemoveJournalEntry ==
    /\ \E id \in RemoveIds :
           /\ ledger' = remove_journal_entry(ledger, id)
           /\ last' = [op |-> "remove_journal_entry", ok |-> TRUE, id |-> id,
                       before |-> ledger]
    /\ UNCHANGED <<nodes, ctor_args, dfs, agg, ledger_fields, journal_entry>>

RemoveAllJournalEntries ==
    /\ ledger' = remove_all_journal_entries(ledger)
    /\ last' = [op |-> "remove_all_journal_entries", ok |-> TRUE,
                before |-> ledger, fields_before |-> ledger_fields]
    /\ UNCHANGED <<nodes, ctor_args, dfs, agg, ledger_fields, journal_entry>>

Reset ==
    /\ LET r == reset(ledger_fields, ledger) IN
       /\ ledger' = r.journal_entries
       /\ ledger_fields' = r.fields
    /\ last' = [op |-> "reset", ok |-> TRUE, before |-> ledger,
                fields_before |-> ledger_fields]
    /\ UNCHANGED <<nodes, ctor_args, dfs, agg, journal_entry>>

SetId ==
    /\ \E id \in LedgerIds :
           /\ ledger_fields' = set_id(ledger_fields, id)
           /\ last' = [op |-> "set_id", ok |-> TRUE, id |-> id]
    /\ UNCHANGED <<nodes, ctor_args, dfs, agg, ledger, journal_entry>>

GetJournalEntryByBetween ==
    /\ \E start_date \in Dates, end_date \in Dates :
           last' = [op |-> "get_journal_entry_by_between", ok |-> TRUE,
                    start_date |-> start_date, end_date |-> end_date,
                    ret |-> get_journal_entry_by_between(ledger, start_date,
                                                         end_date)]
    /\ UNCHANGED <<nodes, ctor_args, dfs, agg, ledger, ledger_fields,
                   journal_entry>>

NextLedger ==
    \/ LedgerNewCall
    \/ AddJournalEntry
    \/ RemoveJournalEntry
    \/ RemoveAllJournalEntries
    \/ Reset
    \/ SetId
    \/ GetJournalEntryByBetween

SpecLedger == InitLedger /\ [][NextLedger]_vars

(***************************************************************************)
(* SpecLedgerBulk: add_journal_entries and set_journal_entries.  The       *)
(* journal entries of a batch are numbered on from the ledger's length.    *)
(***************************************************************************)
Batches(first_id) ==
    UNION {{[k \in 1..n |-> JournalEntryNew(first_id + k, d[k])] :
               d \in [1..n -> Dates]} : n \in 0..MaxBatch}

InitLedgerBulk ==
    /\ nodes = <<RootNodeNew>>
    /\ ctor_args = <<>>
    /\ dfs = NoInstance
    /\ agg = NoInstance
    /\ \E from_date \in Dates, to_date \in Dates :
           LET l == LedgerNew(LedgerId, from_date, to_date) IN
           /\ l.kind # "panic"
           /\ ledger = l.journal_entries
           /\ ledger_fields = FieldsOf(l)
    /\ journal_entry = NoJournalEntry
    /\ last = Idle

AddJournalEntries ==
    /\ \E batch \in Batches(Len(ledger)) :
           /\ Len(ledger) + Len(batch) <= MaxBulkEntries
           /\ LET r == add_journal_entries(ledger_fields, ledger, batch) IN
              /\ ledger' = r.journal_entries
              /\ last' = [op |-> "add_journal_entries", ok |-> r.ok,
                          batch |-> batch, before |-> ledger]
    /\ UNCHANGED <<nodes, ctor_args, dfs, agg, ledger_fields, journal_entry>>

SetJournalEntries ==
    /\ \E batch \in Batches(Len(ledger)) :
           LET r == set_journal_entries(ledger_fields, ledger, batch) IN
           /\ ledger' = r.journal_entries
           /\ last' = [op |-> "set_journal_entries", ok |-> r.ok,
                       batch |-> batch, before |-> ledger]
    /\ UNCHANGED <<nodes, ctor_args, dfs, agg, ledger_fields, journal_entry>>

NextLedgerBulk == AddJournalEntries \/ SetJournalEntries

SpecLedgerBulk == InitLedgerBulk /\ [][NextLedgerBulk]_vars

(***************************************************************************)
(* SpecLedgerAll: every operation that changes a Ledger, the setters of    *)
(* the window included.                                                    *)
(***************************************************************************)
SetFromDate ==
    /\ \E from_date \in Dates :
           /\ ledger_fields' = set_from_date(ledger_fields, from_date)
           /\ last' = [op |-> "set_from_date", ok |-> TRUE,
                       from_date |-> from_date]
    /\ UNCHANGED <<nodes, ctor_args, dfs, agg, ledger, journal_entry>>

SetToDate ==
    /\ \E to_date \in Dates :
           /\ ledger_fields' = set_to_date(ledger_fields, to_date)
           /\ last' = [op |-> "set_to_date", ok |-> TRUE, to_date |-> to_date]
    /\ UNCHANGED <<nodes, ctor_args, dfs, agg, ledger, journal_entry>>

NextLedgerAll ==
    \/ LedgerNewCall
    \/ AddJournalEntry
    \/ AddJournalEntries
    \/ SetJournalEntries
    \/ RemoveJournalEntry
    \/ RemoveAllJournalEntries
    \/ Reset
    \/ SetId
    \/ SetFromDate
    \/ SetToDate

SpecLedgerAll == InitLedger /\ [][NextLedgerAll]_vars

(***************************************************************************)
(* SpecJournal: a JournalEntry is assembled one transaction entry at a     *)
(* time and its id and date are set; after each push validate(),           *)
(* total_credit() and total_debit() are read, as the journal entry test    *)
(* does.                                                                   *)
(***************************************************************************)
JournalAmounts == {F64(1), F64(400), F64(700), TwoPow53}

JournalTxEntries ==
    [account : {CashNode}, amount : JournalAmounts,
     entry_type : {"Credit", "Debit"}]

Readings(je) ==
    [valid |-> validate(je), total_credit |-> total_credit(je),
     total_debit |-> total_debit(je)]

InitJournal ==
    /\ nodes = FixtureTree
    /\ ctor_args = <<>>
    /\ dfs = NoInstance
    /\ agg = NoInstance
    /\ ledger = NoLedger
    /\ ledger_fields = NoLedgerFields
    /\ journal_entry = JournalEntryNew(1, 0)
    /\ last = [op |-> "JournalEntry::new", ok |-> TRUE,
               now |-> Readings(JournalEntryNew(1, 0))]

AddTransactionEntry ==
    /\ Len(journal_entry.transaction_entries) < MaxTxEntries
    /\ \E te \in JournalTxEntries :
           /\ journal_entry' = add_transaction_entry(journal_entry, te)
           /\ last' = [op |-> "add_transaction_entry", ok |-> TRUE,
                       entry |-> te, was |-> last.now,
                       now |-> Readings(add_transaction_entry(journal_entry, te))]
    /\ UNCHANGED <<nodes, ctor_args, dfs, agg, ledger, ledger_fields>>

JournalEntrySetId ==
    /\ \E id \in JournalIds :
           journal_entry' = JournalEntry_set_id(journal_entry, id)
    /\ last' = [op |-> "JournalEntry::set_id", ok |-> TRUE, now |-> last.now]
    /\ UNCHANGED <<nodes, ctor_args, dfs, agg, ledger, ledger_fields>>

SetDateOfEntry ==
    /\ \E date_of_entry \in Dates :
           journal_entry' = set_date_of_entry(journal_entry, date_of_entry)
    /\ last' = [op |-> "set_date_of_entry", ok |-> TRUE, now |-> last.now]
    /\ UNCHANGED <<nodes, ctor_args, dfs, agg, ledger, ledger_fields>>

NextJournal == AddTransactionEntry \/ JournalEntrySetId \/ SetDateOfEntry

SpecJournal == InitJournal /\ [][NextJournal]_vars

(***************************************************************************)
(* SpecBuildUntyped: build() on trees that hold accounts directly under    *)
(* the Root, whose account type is None, and nodes that hold amounts.      *)
(***************************************************************************)
InitBuildUntyped ==
    /\ \E n \in 2..MaxBuildNodes :
           \E t \in UntypedTrees(n, {<<"a">>, <<"b">>}, {"Assets"}) :
               nodes = AssignAmounts(t, Len(t))
    /\ \E k \in 0..MaxEntries :
           \E entries \in [1..k -> TxEntries(nodes)] :
               ledger = LedgerOf(entries)
    /\ ctor_args = <<>>
    /\ dfs = NoInstance
    /\ agg = NoInstance
    /\ ledger_fields = NoLedgerFields
    /\ journal_entry = NoJournalEntry
    /\ last = Idle

BuildUntyped == last = Idle /\ Build

NextBuildUntyped == BuildUntyped

SpecBuildUntyped == InitBuildUntyped /\ [][NextBuildUntyped]_vars

(***************************************************************************)
(* SpecBuildOrphan: build() with a ledger that has entries on an account   *)
(* node which was constructed under a tag of the tree and never handed to  *)
(* add_child, so that no traversal from the root comes to it.              *)
(***************************************************************************)
OrphanName == <<"c">>

InitBuildOrphan ==
    /\ \E n \in 2..(MaxBuildNodes - 1) :
           \E t \in Trees(n, {<<"a">>, <<"b">>}, {"Assets"}) :
               \E p \in {q \in DOMAIN t : t[q].kind = "Tag"} :
                   nodes = Append(t, AccountNodeNew(t, t[p].level + 1,
                                                    OrphanName, p))
    /\ \E k \in 0..MaxEntries :
           \E entries \in [1..k -> TxEntries(nodes)] :
               ledger = LedgerOf(entries)
    /\ ctor_args = <<>>
    /\ dfs = NoInstance
    /\ agg = NoInstance
    /\ ledger_fields = NoLedgerFields
    /\ journal_entry = NoJournalEntry
    /\ last = Idle

SpecBuildOrphan == InitBuildOrphan /\ [][NextBuildUntyped]_vars

(***************************************************************************)
(* SpecRebuild: build() calls on one tree, with a new BalanceSheet over    *)
(* another ledger made between them.                                       *)
(***************************************************************************)
InitRebuild ==
    /\ \E n \in 1..MaxBuildNodes :
           nodes \in Trees(n, {<<"a">>, <<"b">>}, {"Assets"})
    /\ \E k \in 0..MaxRebuildEntries :
           \E entries \in [1..k -> TxEntries(nodes)] :
               ledger = LedgerOf(entries)
    /\ ctor_args = <<>>
    /\ dfs = NoInstance
    /\ agg = NoInstance
    /\ ledger_fields = NoLedgerFields
    /\ journal_entry = NoJournalEntry
    /\ last = Idle

\* BalanceSheet::new on the same tree with another ledger, after the first
\* build().
BalanceSheetNew ==
    /\ last.op = "build"
    /\ ~last.again
    /\ \E k \in 0..MaxRebuildEntries :
           \E entries \in [1..k -> TxEntries(nodes)] :
               ledger' = LedgerOf(entries)
    /\ last' = [op |-> "BalanceSheet::new", ok |-> TRUE]
    /\ UNCHANGED <<nodes, ctor_args, dfs, agg, ledger_fields, journal_entry>>

\* build() on the first BalanceSheet and on the second.
Rebuild ==
    /\ last.op \in {"init", "BalanceSheet::new"}
    /\ \E order \in IterationOrders(MapKeys(nodes, ledger)) :
           LET r == build(nodes, TreeRoot, ledger, order) IN
           /\ nodes' = r.nodes
           /\ last' = [op |-> "build", ok |-> (r.status = "ok"),
                       status |-> r.status, name |-> r.name,
                       order |-> order, before |-> nodes,
                       again |-> (last.op = "BalanceSheet::new")]
    /\ UNCHANGED <<ledger_fields, journal_entry, ctor_args, dfs, agg, ledger>>

NextRebuild == Rebuild \/ BalanceSheetNew

SpecRebuild == InitRebuild /\ [][NextRebuild]_vars

\* C7: every constructed node other than the Root has
\* level == parent.level + 1.
C7_LevelIsParentLevelPlusOne ==
    \A n \in DOMAIN nodes :
        (nodes[n].kind # "Root" /\ nodes[n].parent # None)
            => nodes[n].level = nodes[nodes[n].parent].level + 1

\* C8: a level-1 tag node carries the account type it was constructed with
\* (for a tag constructed at level 1, the account_type argument), and every
\* node of level > 1 carries the account type of its nearest level-1
\* ancestor.
C8_AccountTypeInheritance ==
    \A n \in DOMAIN nodes :
        /\ (nodes[n].kind = "Tag" /\ nodes[n].level = 1
                /\ ctor_args[n].level = 1)
               => nodes[n].account_type = ctor_args[n].account_type
        /\ (nodes[n].level > 1 /\ NearestLevel1Ancestor(nodes, n) # None)
               => nodes[n].account_type =
                      nodes[NearestLevel1Ancestor(nodes, n)].account_type

\* The nodes of the tree whose name equals `name` up to ASCII case.
Matches(ns, name) ==
    {n \in SeqToSet(PreOrder(ns, TreeRoot)) :
        eq_ignore_ascii_case(ns[n].name, name)}

FreshLookup ==
    /\ last.op \in {"DFS::traverse", "get_node_by_name"}
    /\ last.fresh

\* C9: a newly created DFS returns None exactly when no node of the tree has
\* a name equal to the query up to case, and otherwise a node whose name
\* equals the query up to case.
C9_FreshTraverseFindsIffPresent ==
    FreshLookup =>
        /\ (last.ret = None) <=> (Matches(nodes, last.name) = {})
        /\ last.ret # None => last.ret \in Matches(nodes, last.name)

\* A fresh lookup that finds, below the root's first child, a node whose
\* name differs from the query in case.
C9_Witness ==
    /\ FreshLookup
    /\ last.ret # None
    /\ nodes[last.ret].name # last.name
    /\ nodes[last.ret].parent # TreeRoot
    /\ nodes[TreeRoot].children[1] # nodes[last.ret].parent

\* C10: when several nodes share the queried name, a newly created DFS
\* returns the one that comes first in pre-order.
C10_FreshTraverseReturnsFirstInPreOrder ==
    (FreshLookup /\ Matches(nodes, last.name) # {}) =>
        LET order == PreOrder(nodes, TreeRoot)
            first == CHOOSE i \in 1..Len(order) :
                        /\ order[i] \in Matches(nodes, last.name)
                        /\ \A j \in 1..(i - 1) :
                               order[j] \notin Matches(nodes, last.name)
        IN last.ret = order[first]

\* Two nodes match the query, and the one created later comes first in
\* pre-order and is the one returned.
C10_Witness ==
    /\ FreshLookup
    /\ Cardinality(Matches(nodes, last.name)) >= 2
    /\ \E m \in Matches(nodes, last.name) : m < last.ret

RECURSIVE SumOver(_, _)
SumOver(f, S) ==
    IF S = {} THEN 0
    ELSE LET x == CHOOSE y \in S : TRUE IN f[x] + SumOver(f, S \ {x})

\* The childless nodes of the subtree under n.
Leaves(ns, n) == {m \in SeqToSet(PreOrder(ns, n)) : ns[m].children = <<>>}

\* The sum of the leaf amounts of the subtree under n.
LeafSum(ns, n) == SumOver([m \in DOMAIN ns |-> amount(ns, m)], Leaves(ns, n))

\* A run of a new aggregator from the tree root, on a tree whose nodes with
\* children all held 0.
FreshRunFromZero ==
    /\ last.op = "aggregate"
    /\ last.fresh
    /\ \A n \in DOMAIN last.before :
           last.before[n].children # <<>> => last.before[n].amount = 0

\* C4 as stated: after aggregate() from the tree root, with every internal
\* node at 0 before, amount() of the returned root is the sum of all leaf
\* amounts.
C4_RootAmountIsLeafSum ==
    FreshRunFromZero =>
        amount(nodes, last.ret) = LeafSum(last.before, TreeRoot)

\* C4 amended: the node returned is the root and its amount() is 0, a
\* RootNode storing no amount; the amounts of the root's children add up to
\* the sum of all leaf amounts.
C4_RootChildrenAddUpToLeafSum ==
    FreshRunFromZero =>
        /\ last.ret = TreeRoot
        /\ amount(nodes, last.ret) = 0
        /\ nodes[TreeRoot].children # <<>> =>
               SumOver([m \in DOMAIN nodes |-> amount(nodes, m)],
                       SeqToSet(nodes[TreeRoot].children))
                   = LeafSum(last.before, TreeRoot)

\* A run over a tree of depth 3 whose leaves hold 1200 and 800.
C4_Witness ==
    /\ FreshRunFromZero
    /\ LeafSum(last.before, TreeRoot) = 2000
    /\ \E n \in DOMAIN nodes :
           Len(Ancestors(nodes, n)) = 3 /\ nodes[n].amount = 800

\* C5: after one run of a new aggregator from the root, on a tree whose tag
\* nodes all held 0, every tag node's amount is the sum of the amounts of the
\* leaves of its subtree.
C5_TagAmountIsSubtreeLeafSum ==
    (FreshRunFromZero
        /\ \A n \in DOMAIN last.before :
               last.before[n].kind = "Tag" => last.before[n].amount = 0)
    => \A n \in DOMAIN nodes :
           nodes[n].kind = "Tag" =>
               /\ nodes[n].amount = LeafSum(last.before, n)
               /\ nodes[n].amount = LeafSum(nodes, n)

\* Two leaves of 1200 and 800 under one tag give that tag 2000, and the tag
\* above it holds the 2000 as well.
C5_Witness ==
    /\ FreshRunFromZero
    /\ \E t \in DOMAIN nodes, u \in DOMAIN nodes :
           /\ nodes[t].kind = "Tag" /\ nodes[u].kind = "Tag"
           /\ nodes[t].parent = u
           /\ Len(nodes[t].children) = 2
           /\ nodes[nodes[t].children[1]].amount = 1200
           /\ nodes[nodes[t].children[2]].amount = 800
           /\ nodes[t].amount = 2000
           /\ nodes[u].amount = 2000

\* The first node in pre-order whose name equals `name` up to ASCII case.
FirstMatch(ns, name) ==
    LET order == PreOrder(ns, TreeRoot)
        first == CHOOSE i \in 1..Len(order) :
                    /\ order[i] \in Matches(ns, name)
                    /\ \A j \in 1..(i - 1) : order[j] \notin Matches(ns, name)
    IN order[first]

\* C1: in build() the lookup of every accumulated account name starts at the
\* tree root: when every name of the ledger matches a node of the tree,
\* build() finds each of them and does not abort, in whatever order the names
\* are processed.
C1_BuildFindsEveryNameInTree ==
    (/\ last.op = "build"
     /\ last.status # "no_type"
     /\ \A k \in MapKeys(last.before, ledger) : Matches(last.before, k) # {})
    => last.ok

\* C2: on the fixture tree with the scenario ledger build() completes, after
\* it accounts_total([Cash]) is 700 and is_balanced(assets, [liabilities,
\* owner's equity]) is true; with one transaction entry left out it is false.
C2_ScenarioBalances ==
    /\ (last.op = "build" /\ ledger = ScenarioLedger(0)) => last.ok
    /\ (/\ last.op = "accounts_total"
        /\ last.built
        /\ ledger = ScenarioLedger(0)
        /\ last.names = <<Cash>>) => (last.ok /\ last.ret = 700)
    /\ (last.op = "is_balanced" /\ last.built)
           => (last.ok /\ (last.ret <=> ledger = ScenarioLedger(0)))

\* C3: accounts_total(names) is the sum of amount() over the nodes the names
\* denote, for every list whose names all match a node of the tree, and it
\* fails only when some name matches no node of the tree.
C3_AccountsTotalIsSumOverNamedNodes ==
    last.op = "accounts_total" =>
        /\ last.ok <=>
               \A i \in 1..Len(last.names) : Matches(nodes, last.names[i]) # {}
        /\ last.ok =>
               last.ret =
                   SumOver([i \in 1..Len(last.names) |->
                               amount(nodes, FirstMatch(nodes, last.names[i]))],
                           1..Len(last.names))

\* The sign the rule gives an entry of type entry_type on an account of
\* type t.
RuleSign(t, entry_type) ==
    LET action == IF entry_type = "Debit" THEN PrimaryAccountTypes[t].on_debit
                  ELSE PrimaryAccountTypes[t].on_credit
    IN IF action = "Increase" THEN 1 ELSE -1

\* C6: when all transaction entries of the ledger reference one account
\* leaf, the leaf's amount after build() is the sum over the entries of
\* sign * amount.
C6_LeafAmountIsSignedSum ==
    LET entries == transaction_entries(ledger) IN
    (/\ last.op = "build"
     /\ last.ok
     /\ entries # <<>>
     /\ \A i \in 1..Len(entries) : entries[i].account = entries[1].account)
    => nodes[entries[1].account].amount =
           SumOver([i \in 1..Len(entries) |->
                       RuleSign(nodes[entries[i].account].account_type,
                                entries[i].entry_type) * entries[i].amount],
                   1..Len(entries))

\* C11: Ledger::new succeeds whenever from_date <= to_date, equal dates
\* included, and fails only when from_date > to_date.
C11_LedgerNewAcceptsOrderedDates ==
    last.op = "Ledger::new" => (last.ok <=> last.from_date <= last.to_date)

\* Whether journal entry je is dated within the window of the ledger.
InWindow(je) ==
    /\ ledger_fields.from_date <= je.date_of_entry
    /\ je.date_of_entry <= ledger_fields.to_date

\* C12: add_journal_entry fails for an entry dated before from_date or after
\* to_date and then leaves the entry list as it was; an entry dated within
\* the window, its two ends included, is appended at the end.
C12_AddJournalEntryChecksWindow ==
    last.op = "add_journal_entry" =>
        /\ last.ok <=> InWindow(last.entry)
        /\ ~last.ok => ledger = last.before
        /\ last.ok => ledger = Append(last.before, last.entry)

\* An entry dated after to_date is refused by a ledger that holds entries.
C12_Witness ==
    /\ last.op = "add_journal_entry"
    /\ ~last.ok
    /\ last.before # <<>>
    /\ last.entry.date_of_entry > ledger_fields.to_date

\* C13: add_journal_entries fails when any entry of the batch is dated
\* outside the window, and then no entry of the batch has been appended;
\* otherwise the whole batch is appended, in batch order, after the entries
\* the ledger had.
C13_BulkAddIsAllOrNothing ==
    last.op = "add_journal_entries" =>
        /\ last.ok <=> \A i \in 1..Len(last.batch) : InWindow(last.batch[i])
        /\ ~last.ok => ledger = last.before
        /\ last.ok => ledger = last.before \o last.batch

\* A batch whose first entry is within the window and whose second is not
\* is refused by a ledger that holds entries.
C13_Witness ==
    /\ last.op = "add_journal_entries"
    /\ ~last.ok
    /\ last.before # <<>>
    /\ Len(last.batch) >= 2
    /\ InWindow(last.batch[1])
    /\ ~InWindow(last.batch[2])

\* One more Debit pushed on a journal entry whose validate() was true.
UnmatchedDebit ==
    /\ last.op = "add_transaction_entry"
    /\ last.entry.entry_type = "Debit"
    /\ last.was.valid

\* C14 as stated: validate() is true exactly when total_credit() ==
\* total_debit(); one unmatched debit d > 0 added to a balanced entry makes
\* validate() false and total_debit() - total_credit() equal to d.
C14_UnmatchedDebitUnbalances ==
    /\ last.now.valid <=> (last.now.total_credit = last.now.total_debit)
    /\ UnmatchedDebit =>
           /\ ~last.now.valid
           /\ f64_sub(last.now.total_debit, last.now.total_credit)
                  = last.entry.amount

\* Whether the f64 sum a + b is the exact sum.
ExactSum(a, b) == f64_add(a, b) = Normalize(a.hi + b.hi, a.lo + b.lo)

\* C14 amended: validate() is true exactly when total_credit() ==
\* total_debit(); one unmatched debit d > 0 added to a balanced entry makes
\* validate() false and total_debit() - total_credit() equal to d whenever
\* the f64 sum total_debit() + d is exact.
C14_UnmatchedDebitUnbalancesWhenExact ==
    /\ last.now.valid <=> (last.now.total_credit = last.now.total_debit)
    /\ (UnmatchedDebit /\ ExactSum(last.was.total_debit, last.entry.amount)) =>
           /\ ~last.now.valid
           /\ f64_sub(last.now.total_debit, last.now.total_credit)
                  = last.entry.amount

\* A debit of 700 pushed on an entry of one credit and one equal debit.
C14_Witness ==
    /\ UnmatchedDebit
    /\ last.entry.amount = F64(700)
    /\ last.was.total_debit # F64(0)
    /\ ~last.now.valid

\* C15: remove_journal_entry(id) removes the entries whose id is id and
\* keeps the others in their order; applied again, or for an id no entry
\* has, it leaves the ledger as it is.
C15_RemoveJournalEntryIsIdempotent ==
    last.op = "remove_journal_entry" =>
        /\ ledger = SelectSeq(last.before, LAMBDA j : j.id # last.id)
        /\ remove_journal_entry(ledger, last.id) = ledger
        /\ (\A i \in 1..Len(last.before) : last.before[i].id # last.id)
               => ledger = last.before

\* Of two entries with different ids the first is removed, the second kept.
C15_Witness ==
    /\ last.op = "remove_journal_entry"
    /\ Len(last.before) = 2
    /\ last.before[1].id = last.id
    /\ ledger = <<last.before[2]>>

\* C16: reset() leaves no journal entries and id 0, with from_date and
\* to_date as they were; remove_all_journal_entries() leaves no journal
\* entries and the id as it was.
C16_ResetKeepsWindow ==
    /\ last.op = "reset" =>
           /\ ledger = <<>>
           /\ ledger_fields.id = 0
           /\ ledger_fields.from_date = last.fields_before.from_date
           /\ ledger_fields.to_date = last.fields_before.to_date
    /\ last.op = "remove_all_journal_entries" =>
           /\ ledger = <<>>
           /\ ledger_fields = last.fields_before

\* reset() on a ledger with id 1 that holds entries.
C16_Witness ==
    /\ last.op = "reset"
    /\ last.before # <<>>
    /\ last.fields_before.id = 1
    /\ ledger_fields.id = 0

\* C17: get_journal_entry_by_between(start, end) returns the stored entries
\* dated from start to end, both included, in insertion order, and nothing
\* when start > end.
C17_BetweenIsInclusive ==
    last.op = "get_journal_entry_by_between" =>
        /\ last.ret = SelectSeq(ledger,
               LAMBDA j : /\ last.start_date <= j.date_of_entry
                          /\ j.date_of_entry <= last.end_date)
        /\ last.start_date > last.end_date => last.ret = <<>>

\* Two stored entries, dated start and end, are both returned.
C17_Witness ==
    /\ last.op = "get_journal_entry_by_between"
    /\ Len(ledger) = 2
    /\ last.ret = ledger
    /\ ledger[1].date_of_entry = last.start_date
    /\ ledger[2].date_of_entry = last.end_date
    /\ last.start_date < last.end_date

\* The node given as parent and the nodes above it, nearest first.
ParentChain(ns, parent) == <<parent>> \o Ancestors(ns, parent)

\* Whether the parent chain ends without a node of level 1.
NoLevel1InChain(ns, parent) ==
    \A i \in 1..Len(ParentChain(ns, parent)) :
        ns[ParentChain(ns, parent)[i]].level # 1

\* C18: AccountTagNode::new fails exactly when level < 1, or level == 1 and
\* no account type is given, or level > 1 and there is no parent or the
\* parent chain ends before a node of level 1; otherwise it returns the
\* node, and for level > 1 the node has the type of the first level-1 node
\* of the chain whatever account_type was passed.
C18_TagNodeNewFailureCases ==
    last.op = "AccountTagNode::new" =>
        /\ ~last.ok <=>
               \/ last.level < 1
               \/ last.level = 1 /\ last.account_type = NoType
               \/ /\ last.level > 1
                  /\ \/ last.parent = None
                     \/ NoLevel1InChain(nodes, last.parent)
        /\ last.ok =>
               LET n == nodes[Len(nodes)] IN
               /\ n.kind = "Tag"
               /\ n.level = last.level
               /\ n.parent = last.parent
               /\ last.level > 1 =>
                      \E i \in 1..Len(ParentChain(nodes, last.parent)) :
                          LET c == ParentChain(nodes, last.parent) IN
                          /\ nodes[c[i]].level = 1
                          /\ \A j \in 1..(i - 1) : nodes[c[j]].level # 1
                          /\ n.account_type = nodes[c[i]].account_type

\* A tag of level > 1 whose parent is a node below the Root, passed an
\* account type of its own, is refused: no node of its parent chain has
\* level 1.
C18_Witness ==
    /\ last.op = "AccountTagNode::new"
    /\ ~last.ok
    /\ last.level > 1
    /\ last.parent # None
    /\ last.parent # TreeRoot
    /\ last.account_type # NoType

\* C19: AccountNode::new fails when no parent is given; every
\* account node carries the account type of the parent it was constructed
\* with, and that type is never absent.
C19_AccountNodeResolvesToType ==
    /\ (last.op = "AccountNode::new" /\ last.parent = None) => ~last.ok
    /\ \A n \in DOMAIN nodes :
           nodes[n].kind = "Account" =>
               /\ nodes[n].account_type =
                      nodes[ctor_args[n].parent].account_type
               /\ nodes[n].account_type # NoType

\* Whether some transaction entry of the ledger is on an account without an
\* account type.
UntypedEntry ==
    \E i \in 1..Len(transaction_entries(ledger)) :
        te_account_type(nodes, transaction_entries(ledger)[i]) = NoType

\* C20: when a transaction entry of the ledger references an account whose
\* account type is absent, build() aborts, and no node amount has been
\* changed by the call.
C20_BuildAbortsOnUntypedAccount ==
    (last.op = "build" /\ UntypedEntry) =>
        /\ ~last.ok
        /\ last.status = "no_type"
        /\ nodes = last.before

\* build() aborts on a ledger whose first entry is on an account with a
\* type and whose second is on one without.
C20_Witness ==
    /\ last.op = "build"
    /\ last.status = "no_type"
    /\ Len(transaction_entries(ledger)) = 2
    /\ te_account_type(nodes, transaction_entries(ledger)[1]) # NoType
    /\ te_account_type(nodes, transaction_entries(ledger)[2]) = NoType
    /\ \E n \in DOMAIN nodes : nodes[n].amount # 0

\* The sum of amount() over the nodes of a child list, in list order.
RECURSIVE ChildrenAmount(_, _)
ChildrenAmount(ns, kids) ==
    IF kids = <<>> THEN 0
    ELSE amount(ns, Head(kids)) + ChildrenAmount(ns, Tail(kids))

\* Whether every child of node n is a node without children.
ChildrenAreLeaves(ns, n) ==
    /\ ns[n].children # <<>>
    /\ \A i \in 1..Len(ns[n].children) : ns[ns[n].children[i]].children = <<>>

\* A run of a new aggregator from the tree root.
FreshRun == last.op = "aggregate" /\ last.fresh

\* C21: aggregation is not idempotent.  For a run of a new aggregator from
\* the root and a tag whose children are leaves summing to S: a tag that
\* held 0 holds S after the run, and a tag that held S, as the first run
\* leaves it, holds 2S after the run.
C21_SecondRunDoubleCounts ==
    FreshRun =>
        \A t \in SeqToSet(PreOrder(nodes, TreeRoot)) :
            (nodes[t].kind = "Tag" /\ ChildrenAreLeaves(nodes, t)) =>
                LET S == ChildrenAmount(last.before, nodes[t].children) IN
                /\ last.before[t].amount = 0 => nodes[t].amount = S
                /\ last.before[t].amount = S => nodes[t].amount = 2 * S

\* A tag over leaves of 1200 and 800 held the 2000 of a first run and holds
\* 4000 after the second.
C21_Witness ==
    /\ FreshRun
    /\ \E t \in SeqToSet(PreOrder(nodes, TreeRoot)) :
           /\ nodes[t].kind = "Tag"
           /\ ChildrenAreLeaves(nodes, t)
           /\ ChildrenAmount(last.before, nodes[t].children) = 2000
           /\ last.before[t].amount = 2000
           /\ nodes[t].amount = 4000

\* C22: aggregate() sets the amount of every tag node with children in the
\* subtree it runs over to the amount the node held before the run plus the
\* sum of its children's amounts after the run; a node without children,
\* and a node outside the subtree, keeps its amount.
C22_AggregateIsOwnPlusChildren ==
    last.op = "aggregate" =>
        \A n \in DOMAIN nodes :
            IF /\ n \in SeqToSet(PreOrder(last.before, last.start))
               /\ nodes[n].kind = "Tag"
               /\ nodes[n].children # <<>>
            THEN nodes[n].amount =
                     last.before[n].amount
                         + ChildrenAmount(nodes, nodes[n].children)
            ELSE nodes[n].amount = last.before[n].amount

\* A tag that held an amount of its own, over a childless node that holds
\* one and a tag with a child of its own.
C22_Witness ==
    /\ last.op = "aggregate"
    /\ \E t \in SeqToSet(PreOrder(last.before, last.start)) :
           /\ nodes[t].kind = "Tag"
           /\ last.before[t].amount # 0
           /\ \E i, j \in 1..Len(nodes[t].children) :
                  LET c == nodes[t].children[i]
                      d == nodes[t].children[j]
                  IN /\ nodes[c].children = <<>>
                     /\ nodes[c].amount # 0
                     /\ nodes[d].children # <<>>
                     /\ nodes[d].amount # 0

\* C26: the aggregate() call that follows set_root(r) starts at r, so that
\* it aggregates the subtree under r, and returns r.
C26_AggregateStartsAtNewRoot ==
    [][(last.op = "AmountAggregator::set_root" /\ last'.op = "aggregate")
          => (last'.start = last.root /\ last'.ret = last.root)]_vars

\* C27: a DFS keeps its cursor between calls.  A traverse call starts at
\* the node the instance's cursor is on and searches that node's subtree
\* only: it returns the first node of the subtree, in pre-order, whose name
\* equals the query up to case, and leaves the cursor on it, or returns None
\* and leaves the cursor on the last node of the subtree.  set_root puts the
\* cursor on the new root, and a lookup through get_node_by_name leaves the
\* instance alone.
C27_TraverseStartsAtCursor ==
    [][/\ last'.op = "DFS::traverse" =>
              LET order == PreOrder(nodes, dfs.node)
                  hits == {i \in 1..Len(order) :
                              eq_ignore_ascii_case(nodes[order[i]].name,
                                                   last'.name)}
              IN /\ last'.start = dfs.node
                 /\ dfs'.root = dfs.root
                 /\ IF hits = {}
                    THEN /\ last'.ret = None
                         /\ dfs'.node = order[Len(order)]
                    ELSE LET f == order[CHOOSE i \in hits :
                                           \A j \in hits : i <= j]
                         IN /\ last'.ret = f
                            /\ dfs'.node = f
       /\ last'.op = "DFS::set_root" => dfs'.node = dfs'.root
       /\ last'.op = "get_node_by_name" => dfs' = dfs]_vars

\* A traverse on a used instance, from a node below the root, returns None
\* for a name that a node elsewhere in the tree has.
C27_Witness ==
    /\ last.op = "DFS::traverse"
    /\ ~last.fresh
    /\ last.start # TreeRoot
    /\ last.ret = None
    /\ Matches(nodes, last.name) # {}
    /\ dfs.node # last.start

\* Whether a traverse call has been entered and has not returned yet.
TraverseRunning == last.op = "DFS::traverse" /\ ~last.done

\* C23: on every tree, a traverse call that has been entered returns, and
\* while it runs no node has its name compared twice.
C23_TraverseTerminates ==
    /\ [](last.op = "DFS::traverse" =>
              \A i, j \in 1..Len(last.inspected) :
                  last.inspected[i] = last.inspected[j] => i = j)
    /\ (TraverseRunning ~> (last.op = "DFS::traverse" /\ last.done))

\* A call entered on the root of a tree of three levels has returned None
\* after comparing the name of every node.
C23_Witness ==
    /\ last.op = "DFS::traverse"
    /\ last.done
    /\ last.ret = None
    /\ last.start = TreeRoot
    /\ Len(last.inspected) = Len(nodes)
    /\ Len(nodes) >= 4
    /\ \E n \in DOMAIN nodes : Len(Ancestors(nodes, n)) = 3

\* The step-by-step call agrees with traverse on the value returned and on
\* the cursor left behind.
StepsAgreeWithTraverse ==
    (last.op = "DFS::traverse" /\ last.done) =>
        /\ last.ret = traverse(nodes, last.start, last.name).result
        /\ dfs.node = traverse(nodes, last.start, last.name).node

\* C24: in every state reached from Ledger::new by the operations of the
\* ledger, set_from_date and set_to_date included, from_date <= to_date and
\* every stored journal entry is dated within [from_date, to_date].
C24_WindowHoldsStoredEntries ==
    /\ ledger_fields.from_date <= ledger_fields.to_date
    /\ \A i \in 1..Len(ledger) : InWindow(ledger[i])

\* The nodes a traversal from the tree root comes to.
Reachable(ns) == SeqToSet(PreOrder(ns, TreeRoot))

\* C25: a constructor call leaves every node that existed as it was, child
\* lists included, and the nodes reachable from the root the same, so that
\* a node becomes reachable only by add_child; add_child on an AccountNode
\* changes nothing, and the child list of an AccountNode is always empty.
C25_ConstructionLeavesChildLists ==
    [][/\ last'.op \in {"AccountTagNode::new", "AccountNode::new"} =>
              /\ \A n \in DOMAIN nodes : nodes'[n] = nodes[n]
              /\ Reachable(nodes') = Reachable(nodes)
       /\ (/\ last'.op = "add_child"
           /\ nodes[nodes[last'.child].parent].kind = "Account")
              => nodes' = nodes
       /\ \A n \in DOMAIN nodes' :
              nodes'[n].kind = "Account" => nodes'[n].children = <<>>]_vars

\* add_child was called on an AccountNode that is itself reachable from the
\* root, for a node constructed with it as parent; that node has not become
\* reachable.
C25_Witness ==
    /\ last.op = "add_child"
    /\ nodes[nodes[last.child].parent].kind = "Account"
    /\ nodes[last.child].parent \in Reachable(nodes)
    /\ last.child \notin Reachable(nodes)
    /\ Cardinality(Reachable(nodes)) >= 3

\* The signed amount of transaction entry te, by the sign rule.
SignedAmount(ns, te) ==
    RuleSign(ns[te.account].account_type, te.entry_type) * te.amount

\* The sum of the signed amounts of the transaction entries at the
\* positions I of the flattened ledger.
SignedSum(ns, jes, I) ==
    SumOver([i \in 1..Len(transaction_entries(jes)) |->
                SignedAmount(ns, transaction_entries(jes)[i])], I)

\* A build() that completed on a tree whose nodes all held 0.
BuiltFromZero ==
    /\ last.op = "build"
    /\ last.ok
    /\ \A n \in DOMAIN last.before : last.before[n].amount = 0

\* C28: after a build() that completed on a tree whose amounts were all 0,
\* the amounts of the account nodes add up to the signed sum of all
\* transaction entries of the ledger, and every account node holds the
\* signed sum of the entries made on it, whatever names the nodes have.
C28_BuildConservesTotals ==
    BuiltFromZero =>
        LET entries == transaction_entries(ledger) IN
        /\ SumOver([n \in DOMAIN nodes |-> nodes[n].amount], Accounts(nodes))
               = SignedSum(nodes, ledger, 1..Len(entries))
        /\ \A n \in Accounts(nodes) :
               nodes[n].amount =
                   SignedSum(nodes, ledger,
                             {i \in 1..Len(entries) : entries[i].account = n})

\* C29: when build() aborts on an accumulated account name that no node of
\* the tree has, no node amount has been changed by the call.
C29_OrphanAbortLeavesTree ==
    (/\ last.op = "build"
     /\ last.status = "orphan"
     /\ Matches(last.before, last.name) = {})
    => nodes = last.before

\* Whether some accumulated account name of the ledger equals the name of
\* node n up to case.
NameResolves(ns, jes, n) ==
    \E k \in MapKeys(ns, jes) : eq_ignore_ascii_case(ns[n].name, k)

\* C30: build(), completed or aborted, leaves the amount of every childless
\* node whose name no accumulated account name equals up to case as it was
\* before the call.
C30_BuildKeepsUntouchedLeaves ==
    last.op = "build" =>
        \A n \in DOMAIN nodes :
            (nodes[n].children = <<>> /\ ~NameResolves(last.before, ledger, n))
                => nodes[n].amount = last.before[n].amount

\* A second build() that completed and wrote an amount, with an account node
\* whose name is not in the ledger holding the amount the first build() wrote.
C30_Witness ==
    /\ last.op = "build"
    /\ last.ok
    /\ last.again
    /\ nodes # last.before
    /\ \E n \in Accounts(nodes) :
           /\ ~NameResolves(last.before, ledger, n)
           /\ last.before[n].amount # 0
           /\ nodes[n].amount = last.before[n].amount

====
